---- MODULE Spec2Model ----
(***************************************************************************)
(* Sale-transaction engine of smart-shop-backend.                          *)
(*                                                                         *)
(* recordSale (src/controllers/billingController.js:1330-1628) runs as a  *)
(* request handler; several invocations interleave at every await.  The   *)
(* inventory reads, the Sale insert and the stock decrements run in one    *)
(* MongoDB multi-document transaction (snapshot isolation, write-write     *)
(* conflicts raise an error); generateInvoiceNumber reads the sales        *)
(* collection without the session, i.e. outside the transaction.           *)
(*                                                                         *)
(* Strings that are sorted or parsed (the invoice-number suffix) are       *)
(* sequences of decimal digits.                                            *)
(***************************************************************************)
EXTENDS Integers, Sequences, FiniteSets, TLC

\* ------------------------------------------------------------------ bounds
MaxQty == 2          \* largest quantity on a request line
MaxExternal == 1     \* sale documents inserted by sync push and import

\* --------------------------------------------------------- program values
PadWidth == 6        \* padStart(6, '0')
DayPadWidth == 4     \* padStart(4, '0') and slice(-4) of the Sale model
BaseYear == 2025     \* the year of the spec's examples

Reqs == {"r1", "r2"}                 \* concurrent recordSale invocations
Items == {"A", "B"}                  \* inventory documents
Years == {BaseYear, BaseYear + 1}
Customers == {"c1"}                  \* existing customer documents
CustomerIds == {"none", "c1", "c404"} \* "none": no customerId in the body
None == "none"

\* a request names each item at most once to be accepted, so longer lists only
\* repeat the rejection
MaxLines == Cardinality(Items)

\* stockQty when the model starts: two largest requests for "A" do not both
\* fit, "B" has a single unit
InitStock == [i \in Items |-> IF i = "A" THEN MaxQty + 1 ELSE 1]

\* ------------------------------------------------------ string operations
RECURSIVE NumToString(_)
\* Number.prototype.toString(): decimal digits, most significant first
NumToString(n) == IF n < 10 THEN <<n>> ELSE Append(NumToString(n \div 10), n % 10)

RECURSIVE PadStart(_, _)
\* String.prototype.padStart(w, '0')
PadStart(s, w) == IF Len(s) >= w THEN s ELSE PadStart(<<0>> \o s, w)

RECURSIVE ParseInt(_)
\* parseInt of a string of decimal digits
ParseInt(s) == IF Len(s) = 0 THEN 0
               ELSE 10 * ParseInt(SubSeq(s, 1, Len(s) - 1)) + s[Len(s)]

RECURSIVE StrLess(_, _)
\* a < b in the string (code unit) order the invoiceNumber index sorts by
StrLess(a, b) ==
    IF Len(b) = 0 THEN FALSE
    ELSE IF Len(a) = 0 THEN TRUE
    ELSE IF a[1] # b[1] THEN a[1] < b[1]
    ELSE StrLess(Tail(a), Tail(b))

\* an invoiceNumber string: `INV-${year}-${suffix}` (kind "INV", recordSale) or
\* `${yyyymmdd}${suffix}` (kind "DAY", Sale.generateInvoiceNumber; the date is
\* kept to the year); the suffix is a string of digits
InvoiceNo(kind, y, suffix) == [kind |-> kind, year |-> y, suffix |-> suffix]

\* ------------------------------------------------------------------ state
VARIABLES
    year,          \* new Date().getFullYear()
    stock,         \* InventoryItem.stockQty, committed value per document
    sales,         \* the sales collection, documents in commit order
    issuedBefore,  \* invoices 1..issuedBefore of BaseYear are in the
                   \* collection from before the modelled requests
    call,          \* per invocation of recordSale: position and locals
    billsPush,     \* POST /sync/bills/push: position and the record in hand
    pricing,       \* an application of calculatePricing / calculateAmounts:
                   \* the arguments and, once it returned, the result
    dispatch,      \* a call of sendInvoiceNotifications: its options, its
                   \* position and the results object it builds
    adjust         \* an invocation of the inventory controller's
                   \* updateStock: position, request and the document read

vars == <<year, stock, sales, issuedBefore, call, billsPush, pricing, dispatch, adjust>>

\* what a step of recordSale that writes nothing committed leaves alone
db == <<year, stock, sales, issuedBefore, billsPush, pricing, dispatch, adjust>>

\* request lines {itemId, quantity}; the empty array is accepted by the
\* transport and rejected by validation
Lines == [itemId : Items, quantity : 1..MaxQty]
ItemLists == UNION {[1..n -> Lines] : n \in 0..MaxLines}

\* the roles authorize('staff', 'manager', 'admin', 'superadmin') lets through
Roles == {"staff", "manager", "admin", "superadmin"}

\* the rest of req.body, with the defaults of the destructuring (discount = 0,
\* extraDiscount = 0, gst || gstRate || 0), role and storeId of req.user, and
\* the document Store.findOne({}) finds while the request runs; "none" is an
\* absent field or document
DefaultOpts ==
    [paymentMode |-> None, customerId |-> None, customerName |-> None,
     discount |-> 0, extraDiscount |-> 0, gst |-> 0, cgst |-> 0,
     storeId |-> None, role |-> "staff", userStoreId |-> "s1",
     availableStore |-> "s1"]

\* requests of a staff member of store s1 for the given item lists, without
\* discount, for a walk-in and for a registered customer
SaleBodies(lists) ==
    {[items |-> l, opts |-> [DefaultOpts EXCEPT !.customerId = c]] :
        l \in lists, c \in {None} \cup Customers}

\* no invoiceNumber (null)
NoInvoice == InvoiceNo("none", 0, <<>>)

\* updateStock not yet invoked
NoAdjust == [pc |-> "idle", id |-> None, operation |-> None, quantity |-> 0,
             stockQty |-> 0, totalUnits |-> 0, status |-> 0]

\* no call of sendInvoiceNotifications in hand
NoDispatch ==
    [pc |-> "none",
     options |-> [sendWhatsApp |-> FALSE, sendEmail |-> FALSE, customerPhone |-> "",
                  customerEmail |-> "", pdfBuffer |-> FALSE],
     results |-> [whatsApp |-> <<>>, email |-> <<>>,
                  summary |-> [totalSent |-> 0, totalFailed |-> 0, channels |-> <<>>]]]

\* no function application in hand
NoPricing == [fn |-> "none", items |-> <<>>, discount |-> 0, extraDiscount |-> 0,
              gst |-> 0, cgst |-> 0, out |-> <<>>]

InitCall == [pc |-> "idle", items |-> <<>>, opts |-> DefaultOpts,
             reads |-> {}, storeId |-> None,
             customer |-> None, sendEmail |-> FALSE, email |-> "",
             invoiceNumber |-> NoInvoice,
             session |-> "none", txn |-> "none", abortedOn |-> {},
             txnSale |-> FALSE, written |-> 0, stale |-> {}, saves |-> 0,
             error |-> None, detail |-> <<>>, notification |-> None, notifications |-> <<>>,
             responses |-> <<>>]

Init ==
    /\ year = BaseYear
    /\ stock = InitStock
    /\ sales = <<>>
    /\ issuedBefore \in {0, 10 ^ PadWidth - 1}
    /\ call = [r \in Reqs |-> InitCall]
    /\ billsPush = [pc |-> "idle", invoiceNumber |-> NoInvoice]
    /\ pricing = NoPricing
    /\ dispatch = NoDispatch
    /\ adjust = NoAdjust

RECURSIVE SumQty(_, _)
\* total quantity of item i on a list of lines / sale items
SumQty(lines, i) ==
    IF Len(lines) = 0 THEN 0
    ELSE (IF Head(lines).itemId = i THEN Head(lines).quantity ELSE 0)
         + SumQty(Tail(lines), i)

\* isMongoId(): 24 hexadecimal characters; "bad" stands for every other string
IsMongoId(id) == id # "bad"

\* the document id a 24-hex string is cast to by the $in query, named by its
\* _id.toString(), which is lower-case hex: "AU" is the id of "A" written
\* with upper-case hex digits
CastObjectId(id) == IF id = "AU" THEN "A" ELSE id

\* express-validator chain of the route on items: a non-empty array, every
\* itemId a MongoId and every quantity an integer in [1, 1000]
ValidInput(items) ==
    /\ Len(items) >= 1
    /\ \A k \in 1..Len(items) :
          /\ IsMongoId(items[k].itemId)
          /\ items[k].quantity >= 1 /\ items[k].quantity <= 1000

\* as ValidOpts, without the isFloat({ min: 0 }) checks of the discounts
ValidOptsAnyDiscount(o) ==
    /\ o.paymentMode \in {None, "cash", "upi", "credit", "card"}
    /\ o.customerId = None \/ IsMongoId(o.customerId)
    /\ o.storeId = None \/ IsMongoId(o.storeId)

\* the chain's optional() fields: checked when present
ValidOpts(o) ==
    /\ o.paymentMode \in {None, "cash", "upi", "credit", "card"}
    /\ o.customerId = None \/ IsMongoId(o.customerId)
    /\ o.discount >= 0
    /\ o.extraDiscount >= 0
    /\ o.gst >= 0 /\ o.gst <= 50
    /\ o.cgst >= 0 /\ o.cgst <= 50
    /\ o.storeId = None \/ IsMongoId(o.storeId)

\* validateSaleRecording: validationResult(req).isEmpty()
ValidateSaleRecording(b) == ValidInput(b.items) /\ ValidOpts(b.opts)

\* storeId || req.user.storeId, else any store for admin / manager / staff
ResolveStore(storeId, userStoreId, role, availableStore) ==
    IF storeId # None THEN storeId
    ELSE IF userStoreId # None THEN userStoreId
    ELSE IF role \in {"admin", "manager", "staff"} THEN availableStore
    ELSE None

\* as FirstInsufficient, looking at the first request line only
FirstInsufficientHeadOnly(items, inventoryItems) ==
    IF inventoryItems[items[1].itemId] < items[1].quantity THEN 1 ELSE 0

\* as FirstInsufficient, refusing a request for exactly the available stock
FirstInsufficientOrEqual(items, inventoryItems) ==
    LET bad == {k \in 1..Len(items) :
                   inventoryItems[items[k].itemId] <= items[k].quantity}
    IN IF bad = {} THEN 0 ELSE CHOOSE k \in bad : \A j \in bad : k <= j

\* the first request line whose item has less stock than requested, 0 if none
FirstInsufficient(items, inventoryItems) ==
    LET bad == {k \in 1..Len(items) :
                   inventoryItems[items[k].itemId] < items[k].quantity}
    IN IF bad = {} THEN 0 ELSE CHOOSE k \in bad : \A j \in bad : k <= j

\* name, brand, sellPrice, mrpPrice and sku of the inventory documents; "A"
\* is the item of the documented example, "B" is priced above its MRP
Catalog ==
    [i \in Items |->
        IF i = "A"
        THEN [name |-> "Item A", brand |-> "Acme", sellPrice |-> 100,
              mrpPrice |-> 120, sku |-> "SKU-A"]
        ELSE [name |-> "Item B", brand |-> "", sellPrice |-> 50,
              mrpPrice |-> 40, sku |-> ""]]

\* `Insufficient stock for ${name}. Available: ${stockQty}, Requested:
\* ${quantity}`: the three values the message carries
InsufficientStockMessage(requestedItem, stockQty) ==
    [name |-> Catalog[requestedItem.itemId].name,
     available |-> stockQty,
     requested |-> requestedItem.quantity]

\* as SaleItems, taking the unit price a request line carries
SaleItemsCallerPrice(items) ==
    [k \in 1..Len(items) |->
        LET inventoryItem == Catalog[items[k].itemId]
            unitPrice == IF items[k].unitPrice # <<>> THEN items[k].unitPrice[1]
                         ELSE inventoryItem.sellPrice
        IN [itemId |-> items[k].itemId,
            itemName |-> inventoryItem.name,
            brand |-> inventoryItem.brand,
            quantity |-> items[k].quantity,
            unitPrice |-> unitPrice,
            totalPrice |-> unitPrice * items[k].quantity,
            mrp |-> inventoryItem.mrpPrice,
            sku |-> inventoryItem.sku]]

\* saleItems.push({...}) for every request line
SaleItems(items) ==
    [k \in 1..Len(items) |->
        LET inventoryItem == Catalog[items[k].itemId]
        IN [itemId |-> items[k].itemId,
            itemName |-> inventoryItem.name,
            brand |-> inventoryItem.brand,
            quantity |-> items[k].quantity,
            unitPrice |-> inventoryItem.sellPrice,
            totalPrice |-> inventoryItem.sellPrice * items[k].quantity,
            mrp |-> inventoryItem.mrpPrice,
            sku |-> inventoryItem.sku]]

\* Math.max
Max(a, b) == IF a >= b THEN a ELSE b

RECURSIVE SumTotalPrice(_)
\* subtotal += totalPrice over the calculated items
SumTotalPrice(items) ==
    IF Len(items) = 0 THEN 0
    ELSE Head(items).totalPrice + SumTotalPrice(Tail(items))

RECURSIVE SumTotalMrp(_)
\* mrpTotal += item.mrp * item.quantity
SumTotalMrp(items) ==
    IF Len(items) = 0 THEN 0
    ELSE Head(items).mrp * Head(items).quantity + SumTotalMrp(Tail(items))

\* as CalculatePricing, keeping the totalPrice that came with each item
CalculatePricingTrusting(items, discount, extraDiscount) ==
    LET subtotal == SumTotalPrice(items)
        mrpTotal == SumTotalMrp(items)
        totalDiscount == discount + extraDiscount
        finalAmount == Max(0, subtotal - totalDiscount)
    IN [items |-> items, subtotal |-> subtotal, mrpTotal |-> mrpTotal,
        discount |-> discount, extraDiscount |-> extraDiscount,
        totalDiscount |-> totalDiscount, finalAmount |-> finalAmount,
        savings |-> mrpTotal - finalAmount]

\* calculatePricing(items, discount, extraDiscount)
CalculatePricing(items, discount, extraDiscount) ==
    LET calculatedItems ==
            [k \in 1..Len(items) |->
                [items[k] EXCEPT !.totalPrice = items[k].unitPrice * items[k].quantity]]
        subtotal == SumTotalPrice(calculatedItems)
        mrpTotal == SumTotalMrp(items)
        totalDiscount == discount + extraDiscount
        finalAmount == Max(0, subtotal - totalDiscount)
        savings == mrpTotal - finalAmount
    IN [items |-> calculatedItems, subtotal |-> subtotal, mrpTotal |-> mrpTotal,
        discount |-> discount, extraDiscount |-> extraDiscount,
        totalDiscount |-> totalDiscount, finalAmount |-> finalAmount,
        savings |-> savings]

\* stockUpdates.push({updateOne: {filter: {_id}, update: {$inc: {stockQty: -q}}}})
StockUpdates(items) ==
    [k \in 1..Len(items) |-> [itemId |-> items[k].itemId,
                              inc |-> 0 - items[k].quantity]]

\* ---------------------------------------------------- the sales collection
\* invoice numbers of year y that are in the collection from before
IsIssuedBefore(no) ==
    /\ no.kind = "INV"
    /\ no.year = BaseYear
    /\ Len(no.suffix) = PadWidth
    /\ ParseInt(no.suffix) \in 1..issuedBefore

\* as KeyCommitted, without the unique index on invoiceNumber
KeyCommittedNoIndex(no) == FALSE

\* the unique index on invoiceNumber: the key is present among committed docs
KeyCommitted(no) ==
    \/ \E k \in 1..Len(sales) : sales[k].invoiceNumber = no
    \/ IsIssuedBefore(no)

\* suffixes of the committed invoice numbers matching the regex ^<prefix>
SuffixesOf(kind, y) ==
    {sales[k].invoiceNumber.suffix :
        k \in {j \in 1..Len(sales) : /\ sales[j].invoiceNumber.kind = kind
                                      /\ sales[j].invoiceNumber.year = y}}
    \cup (IF kind = "INV" /\ y = BaseYear /\ issuedBefore > 0
          THEN {PadStart(NumToString(issuedBefore), PadWidth)} ELSE {})

\* Sale.findOne({invoiceNumber: /^prefix/}).sort({invoiceNumber: -1}):
\* the suffix of the document that sorts first in descending string order
LastSuffix(kind, y) ==
    CHOOSE s \in SuffixesOf(kind, y) : \A t \in SuffixesOf(kind, y) : ~StrLess(s, t)

\* as GenerateInvoiceNumber, with a query that also sees the inserts of
\* transactions still running
GenerateInvoiceNumberDirtyRead ==
    LET pending == {ParseInt(call[q].invoiceNumber.suffix) :
                      q \in {p \in Reqs : /\ call[p].txnSale
                                          /\ call[p].invoiceNumber.year = year}}
        committed == IF SuffixesOf("INV", year) = {} THEN 0
                     ELSE ParseInt(LastSuffix("INV", year))
        lastNumber == CHOOSE n \in pending \cup {committed} :
                         \A m \in pending \cup {committed} : m <= n
    IN InvoiceNo("INV", year, PadStart(NumToString(lastNumber + 1), PadWidth))

\* as GenerateInvoiceNumber, without padStart(6, '0')
GenerateInvoiceNumberUnpadded ==
    LET nextNumber == IF SuffixesOf("INV", year) = {} THEN 1
                      ELSE ParseInt(LastSuffix("INV", year)) + 1
    IN InvoiceNo("INV", year, NumToString(nextNumber))

\* generateInvoiceNumber of the billing controller
GenerateInvoiceNumber ==
    LET nextNumber == IF SuffixesOf("INV", year) = {} THEN 1
                      ELSE ParseInt(LastSuffix("INV", year)) + 1
    IN InvoiceNo("INV", year, PadStart(NumToString(nextNumber), PadWidth))

\* ------------------------------------------------- transaction primitives
\* another running transaction holds an uncommitted insert of the same key
KeyPending(r, no) ==
    \E q \in Reqs \ {r} : call[q].txnSale /\ call[q].invoiceNumber = no

\* as InvoiceConflict, with an insert that is never rejected
InvoiceConflictNever(r, no) == FALSE

\* the insert of sale.save({session}) is rejected: duplicate key (E11000) on
\* the unique invoiceNumber index, or a write conflict with a running insert
InvoiceConflict(r, no) == KeyCommitted(no) \/ KeyPending(r, no)

\* items on which transaction q holds an uncommitted $inc
PendingItems(q) ==
    {StockUpdates(call[q].items)[k].itemId : k \in 1..call[q].written}

\* as WriteConflict, with reads and writes that ignore the transaction
WriteConflictNever(r, i) == FALSE

\* the $inc on document i is rejected with a write conflict: the document
\* changed after the snapshot of r, or another running transaction wrote it
WriteConflict(r, i) ==
    \/ i \in call[r].stale
    \/ \E q \in Reqs \ {r} : i \in PendingItems(q)

\* the _id mongoose gives the Sale document of invocation r
SaleId(r) == IF r = "r1" THEN 1 ELSE 2

\* saleSchema.methods.calculateAmounts on a Sale with the given items,
\* discounts and rates: the amounts it assigns
CalculateAmounts(items, discount, extraDiscount, gst, cgst) ==
    LET subtotal == SumTotalPrice(items)
        mrpTotal == SumTotalMrp(items)
        amountAfterDiscount == subtotal - discount - extraDiscount
        gstAmount == (amountAfterDiscount * gst) \div 100
        cgstAmount == (amountAfterDiscount * cgst) \div 100
        totalTax == gstAmount + cgstAmount
    IN [subtotal |-> subtotal, mrpTotal |-> mrpTotal, discount |-> discount,
        extraDiscount |-> extraDiscount, gst |-> gst, cgst |-> cgst,
        totalTax |-> totalTax, totalAmount |-> amountAfterDiscount + totalTax]

\* finalCustomerName: customerName, else 'Walk-in Customer' without a
\* customer, else the name on the customer record
FinalCustomerName(customerName, customer) ==
    IF customerName # None THEN customerName
    ELSE IF customer = None THEN "Walk-in Customer"
    ELSE "Registered Customer"

\* the Sale document built at lines 1487-1509 as the schema keeps it:
\* totalDiscount, finalAmount and savings are no paths of saleSchema and are
\* dropped by mongoose
SaleDoc(r) ==
    LET o == call[r].opts
        p == CalculatePricing(SaleItems(call[r].items), o.discount, o.extraDiscount)
    IN [_id |-> SaleId(r),
        invoiceNumber |-> call[r].invoiceNumber,
        customerId |-> call[r].customer,
        customerName |-> FinalCustomerName(o.customerName, call[r].customer),
        items |-> p.items,
        paymentMode |-> IF o.paymentMode = None THEN "cash" ELSE o.paymentMode,
        subtotal |-> p.subtotal,
        mrpTotal |-> p.mrpTotal,
        discount |-> p.discount,
        extraDiscount |-> p.extraDiscount,
        totalAmount |-> p.finalAmount,
        gst |-> o.gst,
        cgst |-> o.cgst,
        totalTax |-> 0,
        storeId |-> call[r].storeId,
        source |-> "recordSale"]

\* session.abortTransaction() followed by a 4xx response and, through the
\* finally block, session.endSession()
AbortAndRespond(c, status, code) ==
    [c EXCEPT !.pc = "done", !.txn = "aborted", !.session = "ended",
              !.abortedOn = @ \cup {c.txn},
              !.stale = {}, !.opts = DefaultOpts, !.reads = {},
              !.error = code, !.responses = Append(@, status)]

\* an awaited call rejected: the transaction's uncommitted writes are gone
\* (the server has aborted it) and control passes to the catch block
Throw(c, code) ==
    [c EXCEPT !.pc = "catch", !.error = code,
              !.txnSale = FALSE, !.written = 0]

\* ---------------------------------------------------------------- actions
\* as Begin, with the store resolved before the validation result is looked at
BeginStoreFirst(r, bodies) ==
    /\ call[r].pc = "idle"
    /\ \E b \in bodies :
         LET o == b.opts
             c == [call[r] EXCEPT !.items = b.items, !.opts = o]
             storeRead == /\ o.storeId = None /\ o.userStoreId = None
                          /\ o.role \in {"admin", "manager", "staff"}
             assigned == ResolveStore(o.storeId, o.userStoreId, o.role, o.availableStore)
             c1 == [c EXCEPT !.reads = IF storeRead THEN {"stores"} ELSE {}]
         IN call' = [call EXCEPT ![r] =
              IF assigned = None
              THEN [c1 EXCEPT !.pc = "done", !.error = "StoreRequired",
                              !.responses = Append(@, 400)]
              ELSE IF ~ValidateSaleRecording(b)
              THEN [c1 EXCEPT !.pc = "done", !.error = "ValidationError",
                              !.responses = Append(@, 400)]
              ELSE [c1 EXCEPT !.pc = "findItems", !.storeId = assigned,
                              !.session = "open", !.txn = "active"]]
    /\ UNCHANGED db

\* lines 1330-1396 and the route's validators: validation, store resolution
\* (Store.findOne({}) is awaited only when neither the body nor the user names
\* a store and the role is in the fallback list), mongoose.startSession(),
\* session.startTransaction()
Begin(r, bodies) ==
    /\ call[r].pc = "idle"
    /\ \E b \in bodies :
         LET o == b.opts
             c == [call[r] EXCEPT !.items = b.items, !.opts = o]
             storeRead == /\ o.storeId = None /\ o.userStoreId = None
                          /\ o.role \in {"admin", "manager", "staff"}
             assigned == ResolveStore(o.storeId, o.userStoreId, o.role, o.availableStore)
             c1 == [c EXCEPT !.reads = IF storeRead THEN {"stores"} ELSE {}]
         IN call' = [call EXCEPT ![r] =
              IF ~ValidateSaleRecording(b)
              THEN [c EXCEPT !.pc = "done", !.error = "ValidationError",
                             !.responses = Append(@, 400)]
              ELSE IF assigned = None
              THEN [c1 EXCEPT !.pc = "done", !.error = "StoreRequired",
                              !.responses = Append(@, 400)]
              ELSE [c1 EXCEPT !.pc = "findItems", !.storeId = assigned,
                              !.session = "open", !.txn = "active"]]
    /\ UNCHANGED db

\* lines 1399-1461: InventoryItem.find(...).session(session), the length
\* check and the stock check of every request line
FindItems(r) ==
    /\ call[r].pc = "findItems"
    /\ LET c == call[r]
           ids == {CastObjectId(c.items[k].itemId) : k \in 1..Len(c.items)}
           inventoryItems == [i \in ids \cap Items |-> stock[i]]
           c1 == [c EXCEPT !.stale = {}, !.reads = @ \cup {"inventory"}]
           short == FirstInsufficient(c.items, inventoryItems)
       IN call' = [call EXCEPT ![r] =
            IF Cardinality(DOMAIN inventoryItems) # Len(c.items)
            THEN AbortAndRespond(c1, 400, "ItemNotFound")
            ELSE IF \E k \in 1..Len(c.items) :
                       c.items[k].itemId \notin DOMAIN inventoryItems
            THEN AbortAndRespond(c1, 400, "ItemNotFound")
            ELSE IF short # 0
            THEN [AbortAndRespond(c1, 400, "InsufficientStock") EXCEPT
                    !.detail = <<InsufficientStockMessage(
                                    c.items[short],
                                    inventoryItems[c.items[short].itemId])>>]
            ELSE [c1 EXCEPT !.pc = "findCustomer"]]
    /\ UNCHANGED db

\* as FindCustomer, going on as a walk-in sale when the customer is not found
FindCustomerLenient(r) ==
    /\ call[r].pc = "findCustomer"
    /\ LET customerId == call[r].opts.customerId
       IN call' = [call EXCEPT ![r] =
            [@ EXCEPT !.pc = "genInvoice",
                      !.reads = @ \cup {"customers"},
                      !.customer = IF customerId \in Customers THEN customerId ELSE None]]
    /\ UNCHANGED db

\* lines 1462-1481: User.findById(customerId).session(session) when the body
\* has a customerId
FindCustomer(r) ==
    /\ call[r].pc = "findCustomer"
    /\ LET customerId == call[r].opts.customerId
           c == [call[r] EXCEPT !.reads = @ \cup {"customers"}]
       IN call' = [call EXCEPT ![r] =
            IF customerId = None
            THEN [@ EXCEPT !.pc = "genInvoice"]
            ELSE IF customerId \in Customers
            THEN [c EXCEPT !.pc = "genInvoice", !.customer = customerId]
            ELSE AbortAndRespond(c, 400, "CustomerNotFound")]
    /\ UNCHANGED db

\* line 1484: await generateInvoiceNumber(), a read outside the session
GenInvoice(r) ==
    /\ call[r].pc = "genInvoice"
    /\ call' = [call EXCEPT ![r] =
          [@ EXCEPT !.pc = "save", !.invoiceNumber = GenerateInvoiceNumber,
                    !.reads = @ \cup {"sales"}]]
    /\ UNCHANGED db

\* as SaveSale, with the session left out of sale.save(): the insert is
\* persisted at once
SaveSaleNoSession(r) ==
    /\ call[r].pc = "save"
    /\ ~InvoiceConflict(r, call[r].invoiceNumber)
    /\ sales' = Append(sales, SaleDoc(r))
    /\ call' = [call EXCEPT ![r] = [@ EXCEPT !.pc = "bulkWrite", !.saves = @ + 1]]
    /\ UNCHANGED <<year, stock, issuedBefore, billsPush, pricing, dispatch, adjust>>

\* line 1512: await sale.save({ session })
SaveSale(r) ==
    /\ call[r].pc = "save"
    /\ LET c == [call[r] EXCEPT !.saves = @ + 1]
       IN \/ /\ InvoiceConflict(r, c.invoiceNumber)
             /\ call' = [call EXCEPT ![r] = Throw(c, "InvoiceConflict")]
          \/ /\ ~InvoiceConflict(r, c.invoiceNumber)
             /\ call' = [call EXCEPT ![r] =
                   [c EXCEPT !.pc = "bulkWrite", !.txnSale = TRUE]]
          \/ call' = [call EXCEPT ![r] = Throw(c, "Fault")]
    /\ UNCHANGED db

\* line 1516: await InventoryItem.bulkWrite(stockUpdates, { session }), one
\* updateOne at a time in the order of the request lines
BulkWrite(r) ==
    /\ call[r].pc = "bulkWrite"
    /\ LET op == StockUpdates(call[r].items)[call[r].written + 1]
       IN \/ /\ WriteConflict(r, op.itemId)
             /\ call' = [call EXCEPT ![r] = Throw(@, "WriteConflict")]
          \/ /\ ~WriteConflict(r, op.itemId)
             /\ call' = [call EXCEPT ![r] =
                   [@ EXCEPT !.written = @ + 1,
                             !.pc = IF call[r].written + 1 = Len(call[r].items)
                                    THEN "commit" ELSE "bulkWrite"]]
          \/ call' = [call EXCEPT ![r] = Throw(@, "Fault")]
    /\ UNCHANGED db

\* line 1520: await session.commitTransaction(): the insert and every $inc
\* become visible together; running transactions that read the written
\* documents before now hold a stale snapshot of them
CommitTransaction(r) ==
    /\ call[r].pc = "commit"
    /\ \/ /\ sales' = IF call[r].txnSale THEN Append(sales, SaleDoc(r)) ELSE sales
          /\ stock' = [i \in Items |->
                stock[i] - SumQty(SubSeq(SaleItems(call[r].items), 1, call[r].written), i)]
          /\ call' = [q \in Reqs |->
                IF q = r
                THEN [call[r] EXCEPT !.pc = "populate", !.txn = "committed",
                                     !.txnSale = FALSE, !.written = 0,
                                     !.stale = {}]
                ELSE IF call[q].txn = "active" /\ call[q].pc # "findItems"
                THEN [call[q] EXCEPT !.stale = @ \cup PendingItems(r)]
                ELSE call[q]]
       \/ /\ call' = [call EXCEPT ![r] = Throw(@, "Fault")]
          /\ UNCHANGED <<stock, sales>>
    /\ UNCHANGED <<year, issuedBefore, billsPush, pricing, dispatch, adjust>>

\* lines 1521-1525: await sale.populate([...])
Populate(r) ==
    /\ call[r].pc = "populate"
    /\ \/ call' = [call EXCEPT ![r] = [@ EXCEPT !.pc = "notify"]]
       \/ call' = [call EXCEPT ![r] = Throw(@, "Fault")]
    /\ UNCHANGED db

\* results.summary of sendInvoiceNotifications with sendWhatsApp: false: the
\* email channel counts as sent or as failed by results.email.success
NotificationSummary(emailSuccess) ==
    [totalSent |-> IF emailSuccess THEN 1 ELSE 0,
     totalFailed |-> IF emailSuccess THEN 0 ELSE 1]

\* ...(notificationResults && { notifications: {...} }) of the 201 response:
\* one entry when notificationResults was assigned (the dispatch neither was
\* skipped nor threw), none otherwise
ResponseNotifications(outcome) ==
    IF outcome \in {"sent", "channelFailed"}
    THEN <<NotificationSummary(outcome = "sent")>>
    ELSE <<>>

\* finalCustomerEmail = customerEmail || customer.email || ''
FinalCustomerEmail(customerEmail, customer) ==
    IF customerEmail # "" THEN customerEmail
    ELSE IF customer # None THEN "customer@shop" ELSE ""

\* as NotifyAndRespond, with a notification failure left uncaught
NotifyAndRespondUncaught(r) ==
    /\ call[r].pc = "notify"
    /\ \E outcome \in {"pdfThrew", "serviceThrew", "channelFailed", "sent"} :
         call' = [call EXCEPT ![r] =
            IF outcome = "sent"
            THEN [@ EXCEPT !.pc = "audit", !.notification = outcome,
                           !.notifications = ResponseNotifications(outcome),
                           !.responses = Append(@, 201)]
            ELSE [@ EXCEPT !.pc = "catch", !.notification = outcome,
                           !.error = "Fault"]]
    /\ UNCHANGED <<year, stock, sales, issuedBefore, billsPush, pricing, dispatch, adjust>>

\* as NotifyAndRespond, dispatching whenever an email address is at hand
NotifyAndRespondUnasked(r) ==
    /\ call[r].pc = "notify"
    /\ \E sendEmail \in BOOLEAN, customerEmail \in {"", "walkin@mail"} :
         LET email == FinalCustomerEmail(customerEmail, call[r].customer)
             c == [call[r] EXCEPT !.sendEmail = sendEmail, !.email = email]
         IN IF email # ""
            THEN call' = [call EXCEPT ![r] =
                   [c EXCEPT !.pc = "audit", !.notification = "sent",
                             !.notifications = ResponseNotifications("sent"),
                             !.responses = Append(@, 201)]]
            ELSE call' = [call EXCEPT ![r] =
                   [c EXCEPT !.pc = "audit", !.notification = "notRequested",
                             !.responses = Append(@, 201)]]
    /\ UNCHANGED db

\* lines 1526-1602: the notification block, whose errors are caught, and
\* res.status(201).json(...)
NotifyAndRespond(r) ==
    /\ call[r].pc = "notify"
    /\ \E sendEmail \in BOOLEAN, customerEmail \in {"", "walkin@mail"} :
         LET email == FinalCustomerEmail(customerEmail, call[r].customer)
             c == [call[r] EXCEPT !.sendEmail = sendEmail, !.email = email]
         IN IF sendEmail /\ email # ""
            THEN \E outcome \in {"pdfThrew", "serviceThrew", "channelFailed", "sent"} :
                   call' = [call EXCEPT ![r] =
                      [c EXCEPT !.pc = "audit", !.notification = outcome,
                                !.notifications = ResponseNotifications(outcome),
                                !.responses = Append(@, 201)]]
            ELSE call' = [call EXCEPT ![r] =
                      [c EXCEPT !.pc = "audit", !.notification = "notRequested",
                                !.responses = Append(@, 201)]]
    /\ UNCHANGED db

\* lines 1604-1611 and the finally block: await logAudit(...), endSession()
Audit(r) ==
    /\ call[r].pc = "audit"
    /\ \/ call' = [call EXCEPT ![r] =
             [@ EXCEPT !.pc = "done", !.session = "ended",
                       !.customer = None, !.invoiceNumber = NoInvoice,
                       !.sendEmail = FALSE, !.email = "",
                       !.opts = DefaultOpts, !.reads = {}]]
       \/ call' = [call EXCEPT ![r] =
             Throw([@ EXCEPT !.sendEmail = FALSE, !.email = "",
                       !.opts = DefaultOpts, !.reads = {}], "Fault")]
    /\ UNCHANGED db

\* lines 1613-1627: catch { abortTransaction(); throw }, finally
\* { endSession() }, outer catch { res.status(500).json(...) }
HandleError(r) ==
    /\ call[r].pc = "catch"
    /\ call' = [call EXCEPT ![r] =
          [@ EXCEPT !.pc = "done", !.session = "ended", !.stale = {},
                    !.customer = None, !.invoiceNumber = NoInvoice,
                    !.sendEmail = FALSE, !.email = "",
                    !.opts = DefaultOpts, !.reads = {},
                    !.abortedOn = @ \cup {call[r].txn},
                    !.txn = IF @ = "committed" THEN "committed" ELSE "aborted",
                    !.responses = Append(@, 500)]]
    /\ UNCHANGED db

\* the calendar year advances
NewYear ==
    /\ year + 1 \in Years
    /\ year' = year + 1
    /\ UNCHANGED <<stock, sales, issuedBefore, call, billsPush, pricing, dispatch, adjust>>

\* --------------------------- other writers of the sales collection (sync, import)
\* invoice numbers and items a client or a backup file carries
ExternalInvoiceNos ==
    {InvoiceNo("INV", BaseYear, PadStart(NumToString(n), PadWidth)) : n \in 1..2}
ExternalItems ==
    <<[itemId |-> "A", itemName |-> "Item A (client copy)", brand |-> "Acme",
       quantity |-> 1, unitPrice |-> 90, totalPrice |-> 90, mrp |-> 120,
       sku |-> "SKU-A"]>>
ExternalIds == {20}

ExternalDocs == {k \in 1..Len(sales) : sales[k].source # "recordSale"}
FreshId == 10 + Cardinality(ExternalDocs)

AnyKeyPending(no) ==
    \E q \in Reqs : call[q].txnSale /\ call[q].invoiceNumber = no

\* a write outside a transaction may put key no on document id: the unique
\* index holds no other document with it; the write waits for a running
\* transaction that has inserted the key
KeyFree(no, id) ==
    /\ ~IsIssuedBefore(no)
    /\ \A k \in 1..Len(sales) : sales[k].invoiceNumber = no => sales[k]._id = id
    /\ ~AnyKeyPending(no)

ExternalDoc(id, no, source) ==
    [_id |-> id, invoiceNumber |-> no, customerId |-> None,
     customerName |-> "Walk-in Customer", items |-> ExternalItems,
     paymentMode |-> "cash", subtotal |-> 90, mrpTotal |-> 120, discount |-> 0,
     extraDiscount |-> 0, totalAmount |-> 90, gst |-> 0, cgst |-> 0,
     totalTax |-> 0, storeId |-> "s1", source |-> source]

\* the document with invoiceNumber no is overwritten with the record's fields,
\* or a new document is inserted (upsert: true)
UpsertByInvoiceNumber(no, source) ==
    LET hit == {k \in 1..Len(sales) : sales[k].invoiceNumber = no}
    IN /\ ~IsIssuedBefore(no)
       /\ ~AnyKeyPending(no)
       /\ sales' = IF hit # {}
                   THEN [k \in 1..Len(sales) |->
                           IF k \in hit THEN [sales[k] EXCEPT !.items = ExternalItems]
                           ELSE sales[k]]
                   ELSE Append(sales, ExternalDoc(FreshId, no, source))

\* saleSchema.statics.generateInvoiceNumber: `${yyyymmdd}${sequence}` with the
\* sequence read from the last four characters of the highest number of the day
SaleGenerateInvoiceNumber ==
    LET last == LastSuffix("DAY", year)
        sequence == IF SuffixesOf("DAY", year) = {} THEN 1
                    ELSE ParseInt(SubSeq(last, Len(last) - DayPadWidth + 1, Len(last))) + 1
    IN InvoiceNo("DAY", year, PadStart(NumToString(sequence), DayPadWidth))

\* routes/sync.js 51-88 with entity "bills", one record: Sale.create(record)
\* without _id (0), else findOneAndUpdate({_id}, record, {upsert: true}) unless
\* detectConflict lets the cloud copy win; a client knows the _id of the
\* documents it pulled and those it made up itself
SyncEntityPush ==
    /\ \E id \in {0} \cup ExternalIds \cup {sales[k]._id : k \in 1..Len(sales)},
          no \in ExternalInvoiceNos \cup {NoInvoice} :
         LET hit == {k \in 1..Len(sales) : sales[k]._id = id}
         IN IF id = 0
            THEN /\ no # NoInvoice
                 /\ Cardinality(ExternalDocs) < MaxExternal
                 /\ KeyFree(no, FreshId)
                 /\ sales' = Append(sales, ExternalDoc(FreshId, no, "sync"))
            ELSE IF hit # {}
            THEN /\ no # NoInvoice => KeyFree(no, id)
                 /\ sales' = [k \in 1..Len(sales) |->
                       IF k \in hit
                       THEN [sales[k] EXCEPT
                               !.invoiceNumber = IF no = NoInvoice THEN @ ELSE no,
                               !.items = ExternalItems]
                       ELSE sales[k]]
            ELSE /\ Cardinality(ExternalDocs) < MaxExternal
                 /\ KeyFree(no, id)
                 /\ sales' = Append(sales, ExternalDoc(id, no, "sync"))
    /\ UNCHANGED <<year, stock, issuedBefore, call, billsPush, pricing, dispatch, adjust>>

\* routes/sync.js 184-197: a record arrives at POST /sync/bills/push; without
\* an invoiceNumber it gets await Sale.generateInvoiceNumber()
BillsPushBegin ==
    /\ billsPush.pc = "idle"
    /\ Cardinality(ExternalDocs) < MaxExternal
    /\ \E no \in ExternalInvoiceNos \cup {NoInvoice} :
         billsPush' = [pc |-> "upsert",
                       invoiceNumber |-> IF no = NoInvoice
                                         THEN SaleGenerateInvoiceNumber ELSE no]
    /\ UNCHANGED <<year, stock, sales, issuedBefore, call, pricing, dispatch, adjust>>

\* routes/sync.js 198-204: Sale.findOneAndUpdate({invoiceNumber}, record,
\* {upsert: true})
BillsPushUpsert ==
    /\ billsPush.pc = "upsert"
    /\ UpsertByInvoiceNumber(billsPush.invoiceNumber, "sync")
    /\ billsPush' = [pc |-> "idle", invoiceNumber |-> NoInvoice]
    /\ UNCHANGED <<year, stock, issuedBefore, call, pricing, dispatch, adjust>>

\* POST /backup/import, one bill: validateBillObj, then
\* Sale.updateOne({invoiceNumber}, {$set: b}, {upsert: true})
ImportBill ==
    /\ \E no \in ExternalInvoiceNos :
         /\ (\E k \in 1..Len(sales) : sales[k].invoiceNumber = no)
               \/ Cardinality(ExternalDocs) < MaxExternal
         /\ UpsertByInvoiceNumber(no, "import")
    /\ UNCHANGED <<year, stock, issuedBefore, call, billsPush, pricing, dispatch, adjust>>

RecordSaleStep(r, bodies) ==
    \/ Begin(r, bodies)
    \/ FindItems(r)
    \/ FindCustomer(r)
    \/ GenInvoice(r)
    \/ SaveSale(r)
    \/ BulkWrite(r)
    \/ CommitTransaction(r)
    \/ Populate(r)
    \/ NotifyAndRespond(r)
    \/ Audit(r)
    \/ HandleError(r)

\* requests of one line and quantity 1
OneLineLists == {l \in ItemLists : Len(l) = 1 /\ l[1].quantity = 1}

Next == \E r \in Reqs : RecordSaleStep(r, SaleBodies(ItemLists))

InitSale == Init /\ issuedBefore = 0

\* recordSale alone: concurrent invocations within one year
Spec == InitSale /\ [][Next]_vars

NextSeq ==
    \/ \E r \in Reqs : RecordSaleStep(r, SaleBodies(OneLineLists))
    \/ NewYear

\* invoice numbering: concurrent one-line sales and the passing of the year
SpecSeq == Init /\ [][NextSeq]_vars

NextAll ==
    \/ \E r \in {"r1"} : RecordSaleStep(r, SaleBodies(OneLineLists))
    \/ SyncEntityPush
    \/ BillsPushBegin
    \/ BillsPushUpsert
    \/ ImportBill

\* every writer of the sales collection: recordSale, sync push, import
SpecAll == InitSale /\ [][NextAll]_vars

\* ------------------------------------------- the pricing functions alone
\* priced lines handed to calculatePricing / held by a Sale: prices in whole
\* hundreds (the percentages of calculateAmounts are then whole numbers), a
\* unit price below, at and above the MRP, a totalPrice that came with the item
PricedLines ==
    [itemId : {"A"}, quantity : 1..MaxQty, unitPrice : {0, 100, 200},
     mrp : {0, 100}, totalPrice : {0, 700}]
PricedLists == UNION {[1..n -> PricedLines] : n \in 0..MaxLines}

InitPricing ==
    /\ year = BaseYear
    /\ stock = InitStock
    /\ sales = <<>>
    /\ issuedBefore = 0
    /\ call = [r \in Reqs |-> InitCall]
    /\ billsPush = [pc |-> "idle", invoiceNumber |-> NoInvoice]
    /\ \E fn \in {"calculatePricing", "calculateAmounts"}, items \in PricedLists,
          discount \in {0, 100, 1000}, extraDiscount \in {0, 100}, rate \in {0, 9} :
         /\ fn = "calculatePricing" => rate = 0
         /\ pricing = [fn |-> fn, items |-> items, discount |-> discount,
                       extraDiscount |-> extraDiscount, gst |-> rate, cgst |-> rate,
                       out |-> <<>>]
    /\ dispatch = NoDispatch
    /\ adjust = NoAdjust

\* calculatePricing is applied to the arguments in hand
CalculatePricingCall ==
    /\ pricing.fn = "calculatePricing"
    /\ pricing.out = <<>>
    /\ pricing' = [pricing EXCEPT !.out =
          <<CalculatePricing(pricing.items, pricing.discount, pricing.extraDiscount)>>]
    /\ UNCHANGED <<year, stock, sales, issuedBefore, call, billsPush, dispatch, adjust>>

\* sale.calculateAmounts() is applied to the Sale in hand
CalculateAmountsCall ==
    /\ pricing.fn = "calculateAmounts"
    /\ pricing.out = <<>>
    /\ pricing' = [pricing EXCEPT !.out =
          <<CalculateAmounts(pricing.items, pricing.discount, pricing.extraDiscount,
                             pricing.gst, pricing.cgst)>>]
    /\ UNCHANGED <<year, stock, sales, issuedBefore, call, billsPush, dispatch, adjust>>

NextPricing == CalculatePricingCall \/ CalculateAmountsCall

\* the pricing functions over bounded arguments
SpecPricing == InitPricing /\ [][NextPricing]_vars

\* request lines as a client may send them: an item in stock ("A"), a
\* well-formed id of no inventory document ("X"), the id of "A" in upper-case
\* hex ("AU"), a malformed id, quantities below, inside and above [1, 1000],
\* a line that carries a unitPrice of its own (<<>>: none), a line that asks
\* for more than the stock; two lines with the second not in the inventory,
\* naming "A" again, or naming "B"
InputLines ==
    [itemId : {"A", "X", "AU", "bad"}, quantity : {0, 1, 1001}, unitPrice : {<<>>}]
    \cup {[itemId |-> "A", quantity |-> 1, unitPrice |-> <<1>>],
          [itemId |-> "A", quantity |-> 1000, unitPrice |-> <<>>]}
InputLists ==
    {<<>>} \cup {<<l>> : l \in InputLines}
           \cup {<<[itemId |-> "A", quantity |-> 1, unitPrice |-> <<>>],
                    [itemId |-> i, quantity |-> 1, unitPrice |-> <<>>]>> :
                     i \in {"X", "A", "AU", "B"}}

\* the other fields of the body and the caller, valid and invalid
InputOpts ==
    {o \in [paymentMode : {None, "card", "cheque"},
            customerId : CustomerIds \cup {"bad"},
            customerName : {None, "Asha"},
            discount : {0 - 1, 0, 10, 1000},
            extraDiscount : {0 - 1, 0, 5},
            gst : {0, 9}, cgst : {0, 9},
            storeId : {None, "s2", "bad"},
            role : Roles,
            userStoreId : {None, "s1"},
            availableStore : {None, "s1"}] :
        /\ o.cgst = o.gst
        /\ o.customerName # None => o.customerId \in {None, "c1"}}

InputBodies == [items : InputLists, opts : InputOpts]

NextIn == \E r \in {"r1"} : RecordSaleStep(r, InputBodies)

\* one recordSale invocation over the range of request bodies and callers
SpecIn == InitSale /\ [][NextIn]_vars

\* ------------------------------------------ manual stock adjustment
\* totalUnits of the inventory documents: the units ever stocked, of which
\* MaxQty were sold before the model starts
TotalUnits == [i \in Items |-> InitStock[i] + MaxQty]

\* inventoryItemSchema.methods.updateStock: the stockQty the document in
\* memory gets
UpdateStockQty(stockQty, quantity, operation) ==
    CASE operation = "add" -> stockQty + quantity
      [] operation = "subtract" -> Max(0, stockQty - quantity)
      [] OTHER -> quantity

\* updateStock of the inventory controller up to the check against
\* totalUnits: validation of quantity and operation,
\* InventoryItem.findById(id), which reads the committed document, and the
\* checks on the new quantity; the store access check passes for the caller
UpdateStockRead ==
    /\ adjust.pc = "idle"
    /\ \E id \in {"A", "X"}, quantity \in 0..MaxQty,
          operation \in {"set", "add", "subtract", "move"} :
         LET a == [adjust EXCEPT !.id = id, !.operation = operation,
                                 !.quantity = quantity]
             newStockQty == CASE operation = "add" -> stock[id] + quantity
                              [] operation = "subtract" -> stock[id] - quantity
                              [] OTHER -> quantity
         IN adjust' =
              IF quantity = 0 \/ operation \notin {"set", "add", "subtract"}
              THEN [a EXCEPT !.pc = "done", !.status = 400]
              ELSE IF id \notin Items
              THEN [a EXCEPT !.pc = "done", !.status = 404]
              ELSE IF newStockQty < 0 \/ newStockQty > TotalUnits[id]
              THEN [a EXCEPT !.pc = "done", !.status = 400]
              ELSE [a EXCEPT !.pc = "save", !.stockQty = stock[id],
                             !.totalUnits = TotalUnits[id]]
    /\ UNCHANGED <<year, stock, sales, issuedBefore, call, billsPush, pricing, dispatch>>

\* await item.updateStock(sanitizedQuantity, operation) and the response:
\* the method changes the document in memory and save() sets stockQty to
\* that value; the write, made outside any transaction, waits for a running
\* transaction that has written the document, and transactions that read
\* the document before now hold a stale snapshot of it
UpdateStockSave ==
    /\ adjust.pc = "save"
    /\ \/ /\ \A q \in Reqs : adjust.id \notin PendingItems(q)
          /\ stock' = [stock EXCEPT ![adjust.id] =
                          UpdateStockQty(adjust.stockQty, adjust.quantity,
                                         adjust.operation)]
          /\ call' = [q \in Reqs |->
                IF call[q].txn = "active" /\ call[q].pc # "findItems"
                THEN [call[q] EXCEPT !.stale = @ \cup {adjust.id}]
                ELSE call[q]]
          /\ adjust' = [adjust EXCEPT !.pc = "done", !.status = 200]
       \/ /\ adjust' = [adjust EXCEPT !.pc = "done", !.status = 500]
          /\ UNCHANGED <<stock, call>>
    /\ UNCHANGED <<year, sales, issuedBefore, billsPush, pricing, dispatch>>

NextStock ==
    \/ \E r \in {"r1"} : RecordSaleStep(r, SaleBodies(ItemLists))
    \/ UpdateStockRead
    \/ UpdateStockSave

\* one sale and one manual stock adjustment, interleaved
SpecStock == InitSale /\ [][NextStock]_vars

\* ----------------------------------------- the notification service alone
\* options of sendInvoiceNotifications: the two channel flags, the contact
\* data ("" when missing) and whether a PDF buffer is handed over
DispatchOptions ==
    [sendWhatsApp : BOOLEAN, sendEmail : BOOLEAN,
     customerPhone : {"", "+91-1"}, customerEmail : {"", "a@mail", "b@mail"},
     pdfBuffer : BOOLEAN]

\* what emailService.sendInvoicePDF meets: the mail goes out, no transporter
\* can be set up, or transporter.sendMail rejects
EmailOutcomes == {"sent", "Email service not configured", "sendMail rejected"}

InitDispatch ==
    /\ year = BaseYear
    /\ stock = InitStock
    /\ sales = <<>>
    /\ issuedBefore = 0
    /\ call = [r \in Reqs |-> InitCall]
    /\ billsPush = [pc |-> "idle", invoiceNumber |-> NoInvoice]
    /\ pricing = NoPricing
    /\ adjust = NoAdjust
    /\ \E o \in DispatchOptions :
         dispatch = [NoDispatch EXCEPT !.pc = "whatsApp", !.options = o]

\* InvoiceEmailService.sendInvoicePDF: every failure is caught and returned
\* as { success: false, error, email }
SendInvoicePDF(customerEmail, outcome) ==
    [success |-> outcome = "sent",
     error |-> IF outcome = "sent" THEN "" ELSE outcome,
     email |-> customerEmail]

\* lines 353-382: the WhatsApp channel is disabled and counts as failed
SendWhatsApp ==
    /\ dispatch.pc = "whatsApp"
    /\ LET o == dispatch.options
       IN dispatch' =
            IF o.sendWhatsApp /\ o.customerPhone # ""
            THEN [dispatch EXCEPT
                    !.pc = "email",
                    !.results.whatsApp = <<[success |-> FALSE, disabled |-> TRUE,
                                            phone |-> o.customerPhone]>>,
                    !.results.summary.totalFailed = @ + 1]
            ELSE [dispatch EXCEPT !.pc = "email"]
    /\ UNCHANGED <<year, stock, sales, issuedBefore, call, billsPush, pricing, adjust>>

\* as SendEmail, with a failure of the mail transport thrown to the caller
SendEmailUncaught ==
    /\ dispatch.pc = "email"
    /\ LET o == dispatch.options
       IN IF o.sendEmail /\ o.customerEmail # ""
          THEN \E outcome \in EmailOutcomes :
                 dispatch' =
                   IF outcome = "sent"
                   THEN [dispatch EXCEPT
                           !.pc = "return",
                           !.results.email = <<SendInvoicePDF(o.customerEmail, outcome)>>,
                           !.results.summary.totalSent = @ + 1,
                           !.results.summary.channels = Append(@, "Email")]
                   ELSE [dispatch EXCEPT !.pc = "threw"]
          ELSE dispatch' = [dispatch EXCEPT !.pc = "return"]
    /\ UNCHANGED <<year, stock, sales, issuedBefore, call, billsPush, pricing, adjust>>

\* lines 385-399: the email channel
SendEmail ==
    /\ dispatch.pc = "email"
    /\ LET o == dispatch.options
       IN IF o.sendEmail /\ o.customerEmail # ""
          THEN \E outcome \in EmailOutcomes :
                 LET email == SendInvoicePDF(o.customerEmail, outcome)
                 IN dispatch' =
                      IF email.success
                      THEN [dispatch EXCEPT
                              !.pc = "return",
                              !.results.email = <<email>>,
                              !.results.summary.totalSent = @ + 1,
                              !.results.summary.channels = Append(@, "Email")]
                      ELSE [dispatch EXCEPT
                              !.pc = "return",
                              !.results.email = <<email>>,
                              !.results.summary.totalFailed = @ + 1]
          ELSE dispatch' = [dispatch EXCEPT !.pc = "return"]
    /\ UNCHANGED <<year, stock, sales, issuedBefore, call, billsPush, pricing, adjust>>

\* lines 401-405: the summary is logged and results returned
ReturnResults ==
    /\ dispatch.pc = "return"
    /\ dispatch' = [dispatch EXCEPT !.pc = "returned"]
    /\ UNCHANGED <<year, stock, sales, issuedBefore, call, billsPush, pricing, adjust>>

NextDispatch == SendWhatsApp \/ SendEmail \/ ReturnResults

\* sendInvoiceNotifications over its options and the outcomes of the mail
SpecDispatch == InitDispatch /\ [][NextDispatch]_vars

\* ================================================================= claims
Persisted(r) == \E k \in 1..Len(sales) : sales[k]._id = SaleId(r)

\* the status the caller receives: the first response sent
Status(r) == IF Len(call[r].responses) = 0 THEN 0 ELSE call[r].responses[1]

RECURSIVE SoldQty(_, _)
\* quantity of item i over a sequence of Sale documents
SoldQty(docs, i) ==
    IF Len(docs) = 0 THEN 0
    ELSE SumQty(Head(docs).items, i) + SoldQty(Tail(docs), i)

\* the request names every item once and asks no more than the given stock
InStock(items, qty) ==
    /\ ValidInput(items)
    /\ \A j, k \in 1..Len(items) : j # k => items[j].itemId # items[k].itemId
    /\ \A k \in 1..Len(items) : items[k].quantity <= qty[items[k].itemId]

\* C1: in every reachable state, under any interleaving of concurrent
\* recordSale calls, each item's stockQty is its initial stock minus the
\* quantities of that item in the committed Sales, and is never negative.
C1_StockConservation ==
    \A i \in Items : stock[i] = InitStock[i] - SoldQty(sales, i) /\ stock[i] >= 0

\* two invocations raced for item "A": one committed, the other met the
\* write conflict
C1_Witness ==
    /\ Len(sales) = 1
    /\ stock["A"] < InitStock["A"]
    /\ \E r \in Reqs : call[r].error = "WriteConflict"

\* C2: when any line of a multi-item request asks more than the stock read,
\* the stock check ends the request with 400, leaves every stockQty and the
\* sales collection as they were, and the request never persists a Sale.
C2_NoPartialReservation ==
    /\ [][\A r \in Reqs :
            (/\ call[r].pc = "findItems"
             /\ call'[r].pc # "findItems"
             /\ \A j, k \in 1..Len(call[r].items) :
                   j # k => call[r].items[j].itemId # call[r].items[k].itemId
             /\ \E k \in 1..Len(call[r].items) :
                   stock[call[r].items[k].itemId] < call[r].items[k].quantity)
            => (/\ call'[r].pc = "done"
                /\ call'[r].error = "InsufficientStock"
                /\ call'[r].responses = <<400>>
                /\ stock' = stock
                /\ sales' = sales)]_vars
    /\ [](\A r \in Reqs : call[r].error = "InsufficientStock"
            => call[r].pc = "done" /\ ~Persisted(r) /\ call[r].saves = 0)

\* a two-line request was refused for one of its lines while the other line
\* was in stock
C2_Witness ==
    \E r \in Reqs :
        /\ call[r].error = "InsufficientStock"
        /\ Len(call[r].items) = 2
        /\ \E k \in 1..2 : call[r].items[k].quantity <= stock[call[r].items[k].itemId]

\* C3: the Sale insert and the stock decrements of an invocation take effect
\* in the same step or not at all: every step lowers each stockQty by exactly
\* the quantities of the Sales it adds, and a Sale is persisted iff its
\* transaction committed, also after a failed save, bulkWrite or commit.
C3_AllOrNothing ==
    /\ [][/\ Len(sales') >= Len(sales)
          /\ SubSeq(sales', 1, Len(sales)) = sales
          /\ \A i \in Items :
                stock[i] - stock'[i]
                    = SoldQty(SubSeq(sales', Len(sales) + 1, Len(sales')), i)]_vars
    /\ [](\A r \in Reqs : Persisted(r) <=> call[r].txn = "committed")

\* a bulkWrite failed after the Sale insert had succeeded, and nothing of the
\* invocation is persisted
C3_Witness ==
    \E r \in Reqs :
        /\ call[r].pc = "done"
        /\ call[r].error = "WriteConflict"
        /\ ~Persisted(r)
        /\ \A i \in Items : stock[i] = InitStock[i] - SoldQty(sales, i)

\* requests r and q name no item in common
Disjoint(r, q) ==
    \A j \in 1..Len(call[r].items), k \in 1..Len(call[q].items) :
        call[r].items[j].itemId # call[q].items[k].itemId

\* errors the environment or the request's own data cause, not the race
\* between invocations
OwnFailure == {"ValidationError", "StoreRequired", "ItemNotFound",
               "InsufficientStock", "CustomerNotFound", "Fault"}

InvoiceOf(r) ==
    LET k == CHOOSE k \in 1..Len(sales) : sales[k]._id = SaleId(r)
    IN sales[k].invoiceNumber

\* C4: N recordSale calls in the same year against disjoint stock, each valid
\* and in stock, all succeed and yield N pairwise distinct invoice numbers.
C4_DisjointSalesAllSucceed ==
    (/\ \A r \in Reqs : /\ call[r].pc = "done"
                        /\ InStock(call[r].items, InitStock)
                        /\ call[r].error \notin OwnFailure
     /\ \A r, q \in Reqs : r # q => Disjoint(r, q))
    => /\ \A r \in Reqs : Status(r) = 201 /\ Persisted(r)
       /\ \A r, q \in Reqs : r # q => InvoiceOf(r) # InvoiceOf(q)

\* C5: when the Sale insert fails on the invoice-number uniqueness constraint
\* or a write conflicts with a concurrent writer, recordSale retries the
\* numbering and the insert, and responds only after the last attempt failed,
\* then with 409.
C5_ConflictRetriedThen409 ==
    \A r \in Reqs :
        (call[r].pc = "done" /\ call[r].error \in {"InvoiceConflict", "WriteConflict"})
        => (call[r].saves >= 2 /\ Status(r) = 409)

\* C6: whenever recordSale responds with a failure status no Sale of the
\* request is persisted and its transaction changed no stock; whenever it
\* responds 201 the Sale and its decrements are committed.
C6_CleanFailureOrSuccess ==
    \A r \in Reqs :
        call[r].pc = "done"
        => /\ Status(r) >= 400 => (~Persisted(r) /\ call[r].txn # "committed")
           /\ Status(r) = 201 => (Persisted(r) /\ call[r].txn = "committed")

\* C7: of two requests for the same item whose quantities each fit the stock
\* and together exceed it, exactly one succeeds, the stock ends at the initial
\* value minus the winner's quantity, and the other fails with
\* InsufficientStock.
C7_OneWinsOtherInsufficient ==
    \A r, q \in Reqs :
        (/\ r # q
         /\ call[r].pc = "done" /\ call[q].pc = "done"
         /\ Len(call[r].items) = 1 /\ Len(call[q].items) = 1
         /\ call[r].items[1].itemId = "A" /\ call[q].items[1].itemId = "A"
         /\ InStock(call[r].items, InitStock) /\ InStock(call[q].items, InitStock)
         /\ call[r].items[1].quantity + call[q].items[1].quantity > InitStock["A"]
         /\ call[r].error \notin (OwnFailure \ {"InsufficientStock"})
         /\ call[q].error \notin (OwnFailure \ {"InsufficientStock"})
         /\ Persisted(r))
        => /\ Status(r) = 201
           /\ stock["A"] = InitStock["A"] - call[r].items[1].quantity
           /\ ~Persisted(q)
           /\ call[q].error = "InsufficientStock"

\* C8: no two persisted Sales share an invoice number, whatever the sequence
\* and interleaving of recordSale, sync pushes and imports.
C8_UniqueInvoiceNumbers ==
    \A j, k \in 1..Len(sales) :
        j # k => sales[j].invoiceNumber # sales[k].invoiceNumber

\* an import took the number recordSale had generated, the insert of
\* recordSale was refused, and the collection holds two documents
C8_Witness ==
    /\ Len(sales) >= 2
    /\ \E k \in 1..Len(sales) : sales[k].source = "import"
    /\ \E k \in 1..Len(sales) : sales[k].source = "sync"
    /\ call["r1"].error = "InvoiceConflict"

\* C9: over the Sales recordSale created within one year, in commit order, the
\* numeric invoice suffixes strictly increase, and they lie above every
\* suffix issued before.
C9_SuffixesIncrease ==
    /\ \A j, k \in 1..Len(sales) :
          (j < k /\ sales[j].invoiceNumber.year = sales[k].invoiceNumber.year)
          => ParseInt(sales[j].invoiceNumber.suffix)
                 < ParseInt(sales[k].invoiceNumber.suffix)
    /\ \A k \in 1..Len(sales) :
          sales[k].invoiceNumber.year = BaseYear
          => ParseInt(sales[k].invoiceNumber.suffix) > issuedBefore

\* two sales of one year are committed after both invocations had run
\* concurrently enough for one numbering to be refused elsewhere
C9_Witness ==
    /\ Len(sales) = 2
    /\ sales[1].invoiceNumber.year = sales[2].invoiceNumber.year
    /\ ParseInt(sales[2].invoiceNumber.suffix) = 2

\* C10: when the notification dispatch fails (the PDF generation throws, the
\* service throws, or the channel reports failure), recordSale has still
\* responded 201 and the Sale and its stock decrements stay committed.
C10_NotificationFailureKeepsSale ==
    \A r \in Reqs :
        call[r].notification \in {"pdfThrew", "serviceThrew", "channelFailed"}
        => /\ call[r].pc \in {"audit", "catch", "done"}
           /\ Status(r) = 201
           /\ Persisted(r)
           /\ call[r].txn = "committed"
           /\ \A i \in Items : stock[i] <= InitStock[i] - SumQty(call[r].items, i)

\* the notification service threw for a sale that is recorded and answered
C10_Witness ==
    \E r \in Reqs :
        /\ call[r].notification = "serviceThrew"
        /\ call[r].pc = "done"
        /\ call[r].error = None

\* C11: when a notification was requested for a committed sale and its
\* dispatch failed, whichever way, the 201 response carries the notification
\* result metadata, and the metadata reports the failure.
C11_FailureIndicatorInResponse ==
    \A r \in Reqs :
        (/\ call[r].notification \in {"pdfThrew", "serviceThrew", "channelFailed"}
         /\ Status(r) = 201)
        => /\ Len(call[r].notifications) = 1
           /\ call[r].notifications[1].totalFailed >= 1

\* the notification dispatch was entered (generateInvoicePDFBuffer called)
Dispatched(c) ==
    c.notification \in {"pdfThrew", "serviceThrew", "channelFailed", "sent"}

\* C12: the step that dispatches a sale's notification is taken with the
\* sale's transaction committed and the Sale persisted, with sendEmail
\* requested and a customer email at hand; a request whose transaction is not
\* committed (not yet, or aborted) has dispatched nothing.
C12_DispatchOnlyAfterCommit ==
    /\ [][\A r \in Reqs :
            (~Dispatched(call[r]) /\ Dispatched(call'[r]))
            => (/\ call[r].txn = "committed"
                /\ Persisted(r)
                /\ call'[r].sendEmail
                /\ call'[r].email # "")]_vars
    /\ [](\A r \in Reqs : call[r].txn # "committed" => ~Dispatched(call[r]))

\* one request was aborted and dispatched nothing while the other committed
\* and had its invoice sent to the email of the registered customer
C12_Witness ==
    \E r, q \in Reqs :
        /\ call[r].txn = "aborted" /\ call[r].pc = "done"
        /\ call[q].notification = "sent" /\ call[q].pc = "audit"
        /\ call[q].customer # None

\* the request breaks a rule of the input validation
ViolatesValidation(items, o) ==
    \/ Len(items) = 0
    \/ \E k \in 1..Len(items) :
          \/ items[k].itemId = "bad"
          \/ items[k].quantity < 1
          \/ items[k].quantity > 1000
    \/ o.paymentMode \notin {None, "cash", "upi", "credit", "card"}
    \/ o.discount < 0
    \/ o.extraDiscount < 0
    \/ o.customerId = "bad"

\* C13: a request that breaks an input rule is answered 400 in the step that
\* receives it, with no store, inventory, customer or sales read, no session
\* and no transaction, and with stock and sales as they were; it stays so.
C13_ValidationBeforeDataAccess ==
    /\ [][\A r \in Reqs :
            (/\ call[r].pc = "idle"
             /\ call'[r].pc # "idle"
             /\ ViolatesValidation(call'[r].items, call'[r].opts))
            => (/\ call'[r].pc = "done"
                /\ call'[r].error = "ValidationError"
                /\ call'[r].responses = <<400>>
                /\ call'[r].reads = {}
                /\ call'[r].session = "none"
                /\ call'[r].txn = "none"
                /\ stock' = stock
                /\ sales' = sales)]_vars
    /\ [](\A r \in Reqs :
            call[r].error = "ValidationError"
            => /\ call[r].pc = "done" /\ call[r].reads = {}
               /\ call[r].txn = "none" /\ ~Persisted(r))

\* a request whose only fault is a negative discount was refused
C13_Witness ==
    \E r \in Reqs :
        /\ call[r].error = "ValidationError"
        /\ call[r].opts.discount < 0
        /\ ~ViolatesValidation(call[r].items, [call[r].opts EXCEPT !.discount = 0])

RECURSIVE SumOf(_, _)
\* the sum of f[k] over k in 1..n
SumOf(f, n) == IF n = 0 THEN 0 ELSE SumOf(f, n - 1) + f[n]

\* C14: for every item list and non-negative discounts calculatePricing
\* returns subtotal = sum of unitPrice x quantity, mrpTotal = sum of
\* mrp x quantity, totalDiscount = discount + extraDiscount and finalAmount =
\* max(0, subtotal - totalDiscount), and each returned item has totalPrice =
\* unitPrice x quantity and is otherwise the item given.
C14_PricingFormulas ==
    (pricing.fn = "calculatePricing" /\ Len(pricing.out) = 1)
    => LET in == pricing.items
           n == Len(in)
           out == pricing.out[1]
           subtotal == SumOf([k \in 1..n |-> in[k].unitPrice * in[k].quantity], n)
       IN /\ out.subtotal = subtotal
          /\ out.mrpTotal = SumOf([k \in 1..n |-> in[k].mrp * in[k].quantity], n)
          /\ out.totalDiscount = pricing.discount + pricing.extraDiscount
          /\ out.finalAmount = (IF subtotal - out.totalDiscount > 0
                                THEN subtotal - out.totalDiscount ELSE 0)
          /\ Len(out.items) = n
          /\ \A k \in 1..n :
                out.items[k] = [in[k] EXCEPT !.totalPrice = in[k].unitPrice * in[k].quantity]

\* calculatePricing returned for two items that came with a totalPrice other
\* than unitPrice x quantity, with discounts above the subtotal
C14_Witness ==
    /\ pricing.fn = "calculatePricing"
    /\ Len(pricing.out) = 1
    /\ Len(pricing.items) = 2
    /\ \A k \in 1..2 :
          pricing.items[k].totalPrice # pricing.items[k].unitPrice * pricing.items[k].quantity
    /\ pricing.out[1].subtotal > 0
    /\ pricing.out[1].totalDiscount > pricing.out[1].subtotal
    /\ pricing.out[1].finalAmount = 0

\* C15: the savings calculatePricing returns are max(0, mrpTotal - finalAmount)
\* and so never negative, also for items whose unit price exceeds their MRP.
C15_SavingsFloorZero ==
    (pricing.fn = "calculatePricing" /\ Len(pricing.out) = 1)
    => LET out == pricing.out[1]
       IN /\ out.savings >= 0
          /\ out.savings = (IF out.mrpTotal - out.finalAmount > 0
                            THEN out.mrpTotal - out.finalAmount ELSE 0)

\* C16: every persisted Sale, and every Sale after calculateAmounts, has
\* totalAmount >= 0 and totalAmount = max(0, subtotal - discount -
\* extraDiscount) + its tax amount.
C16_TotalAmountWithTax ==
    /\ \A k \in 1..Len(sales) :
          LET payable == sales[k].subtotal - sales[k].discount - sales[k].extraDiscount
          IN /\ sales[k].totalAmount >= 0
             /\ sales[k].totalAmount
                  = (IF payable > 0 THEN payable ELSE 0) + sales[k].totalTax
    /\ (pricing.fn = "calculateAmounts" /\ Len(pricing.out) = 1)
       => LET out == pricing.out[1]
              payable == out.subtotal - out.discount - out.extraDiscount
          IN /\ out.totalAmount >= 0
             /\ out.totalAmount = (IF payable > 0 THEN payable ELSE 0) + out.totalTax

\* the fields a SaleItem copies from the inventory document
Snapshot(items) ==
    [k \in 1..Len(items) |->
        [itemId |-> items[k].itemId, itemName |-> items[k].itemName,
         brand |-> items[k].brand, unitPrice |-> items[k].unitPrice,
         mrp |-> items[k].mrp, sku |-> items[k].sku]]

\* C17: no step of any operation (a later sale, a sync push, an import)
\* changes itemName, brand, unitPrice, mrp or sku on the SaleItems of a Sale
\* that is already committed.
C17_SnapshotsNeverChange ==
    [][\A k \in 1..Len(sales) :
          /\ k <= Len(sales')
          /\ sales'[k]._id = sales[k]._id
          /\ Snapshot(sales'[k].items) = Snapshot(sales[k].items)]_vars

\* C18: a valid request is owned by the body's storeId, else by the caller's
\* store, else - every caller on this route having a permitted role - by an
\* available store; it is refused with StoreRequired (400), without session or
\* transaction and with nothing changed, exactly when none of these exists.
C18_StoreResolution ==
    [][\A r \in Reqs :
          (/\ call[r].pc = "idle"
           /\ call'[r].pc # "idle"
           /\ call'[r].error # "ValidationError")
          => LET o == call'[r].opts
                 owner == IF o.storeId # None THEN o.storeId
                          ELSE IF o.userStoreId # None THEN o.userStoreId
                          ELSE IF o.role \in Roles THEN o.availableStore
                          ELSE None
             IN IF owner = None
                THEN /\ call'[r].pc = "done"
                     /\ call'[r].error = "StoreRequired"
                     /\ call'[r].responses = <<400>>
                     /\ call'[r].session = "none"
                     /\ call'[r].txn = "none"
                     /\ stock' = stock
                     /\ sales' = sales
                ELSE /\ call'[r].pc = "findItems"
                     /\ call'[r].error = None
                     /\ call'[r].storeId = owner]_vars

\* C19: a customerId that resolves to no customer record ends the request
\* with CustomerNotFound (400), no Sale and no stock change; a Sale committed
\* for a request without customerId has a null customer reference and the
\* caller's customerName, or "Walk-in Customer" without one; a committed Sale
\* has a customer reference iff the request's customerId resolved.
C19_CustomerResolution ==
    /\ [][\A r \in Reqs :
            (/\ call[r].pc = "findCustomer"
             /\ call'[r].pc # "findCustomer"
             /\ call[r].opts.customerId \notin {None} \cup Customers)
            => (/\ call'[r].pc = "done"
                /\ call'[r].error = "CustomerNotFound"
                /\ call'[r].responses = <<400>>
                /\ stock' = stock
                /\ sales' = sales)]_vars
    /\ [](\A r \in Reqs : call[r].error = "CustomerNotFound"
            => call[r].pc = "done" /\ ~Persisted(r) /\ call[r].saves = 0)
    /\ [][\A r \in Reqs :
            (~Persisted(r) /\ Len(sales') = Len(sales) + 1
             /\ sales'[Len(sales')]._id = SaleId(r))
            => LET o == call[r].opts
                   sale == sales'[Len(sales')]
               IN /\ sale.customerId # None <=> o.customerId \in Customers
                  /\ sale.customerId # None => sale.customerId = o.customerId
                  /\ o.customerId = None
                       => sale.customerName = (IF o.customerName = None
                                               THEN "Walk-in Customer"
                                               ELSE o.customerName)]_vars

\* a sale without customerId and customerName is committed as a walk-in sale
C19_Witness ==
    \E r \in Reqs :
        /\ call[r].pc = "populate"
        /\ call[r].opts.customerId = None
        /\ call[r].opts.customerName = None
        /\ Persisted(r)
        /\ sales[Len(sales)].customerId = None
        /\ sales[Len(sales)].customerName = "Walk-in Customer"

\* the highest numeric suffix among the INV numbers of year y in the sales
\* collection, 0 when the collection has none
HighestSequence(y) ==
    LET ns == {ParseInt(s) : s \in SuffixesOf("INV", y)}
    IN IF ns = {} THEN 0 ELSE CHOOSE n \in ns : \A m \in ns : m <= n

FoundCount(items) ==
    Cardinality({CastObjectId(items[k].itemId) : k \in 1..Len(items)} \cap Items)

\* C21: recordSale ends with ItemNotFound (400), nothing written, exactly
\* when the number of inventory items found for the requested ids differs
\* from the number of request lines; every Sale it commits has pairwise
\* distinct itemIds.
C21_ItemNotFoundIffCountDiffers ==
    /\ [][\A r \in Reqs :
            (call[r].pc = "findItems" /\ call'[r].pc # "findItems")
            => /\ call'[r].error = "ItemNotFound"
                    <=> FoundCount(call[r].items) # Len(call[r].items)
               /\ call'[r].error = "ItemNotFound"
                    => /\ call'[r].pc = "done"
                       /\ call'[r].responses = <<400>>
                       /\ stock' = stock
                       /\ sales' = sales]_vars
    /\ [](\A n \in 1..Len(sales) :
            sales[n].source = "recordSale"
            => \A j, k \in 1..Len(sales[n].items) :
                  j # k => sales[n].items[j].itemId # sales[n].items[k].itemId)

\* the request lines whose item, looked up in the inventory as it is when
\* the request reads it, has less stock than the line asks for
ShortLines(items) ==
    {k \in 1..Len(items) : stock[items[k].itemId] < items[k].quantity}

\* C22: a request whose items all exist ends with InsufficientStock iff some
\* line asks for more than the item's stockQty (asking for exactly the
\* stockQty is let through); the error then carries the name, the available
\* stock and the requested quantity of the first such line, and nothing is
\* written.
C22_InsufficientStockIff ==
    /\ [][\A r \in Reqs :
            (/\ call[r].pc = "findItems"
             /\ call'[r].pc # "findItems"
             /\ FoundCount(call[r].items) = Len(call[r].items)
             /\ \A k \in 1..Len(call[r].items) : call[r].items[k].itemId \in Items)
            => LET items == call[r].items
                   short == ShortLines(items)
               IN /\ call'[r].error = "InsufficientStock" <=> short # {}
                  /\ short # {}
                       => LET k == CHOOSE j \in short : \A m \in short : j <= m
                          IN /\ call'[r].pc = "done"
                             /\ call'[r].responses = <<400>>
                             /\ call'[r].detail =
                                   <<[name |-> Catalog[items[k].itemId].name,
                                      available |-> stock[items[k].itemId],
                                      requested |-> items[k].quantity]>>
                             /\ stock' = stock
                             /\ sales' = sales]_vars
    /\ [][\A r \in Reqs :
            (call'[r].error = "InsufficientStock" /\ call[r].error # "InsufficientStock")
            => call[r].pc = "findItems"]_vars

\* a sale of exactly the last unit of "B" is committed and leaves stock 0,
\* and the other request, naming "B" before "A" with both short, was
\* refused for "B"
C22_Witness ==
    \E r, q \in Reqs :
        /\ Persisted(r)
        /\ stock["B"] = 0
        /\ \E n \in 1..Len(sales) : SumQty(sales[n].items, "B") = InitStock["B"]
        /\ call[q].error = "InsufficientStock"
        /\ Len(call[q].items) = 2
        /\ call[q].items[1].itemId = "B"
        /\ call[q].items[2].quantity > stock["A"]
        /\ call[q].detail = <<[name |-> "Item B", available |-> 0, requested |-> 1]>>

\* the channels sendInvoiceNotifications attempted: those it was asked to
\* use and has the contact data for
Attempted(o) ==
    (IF o.sendWhatsApp /\ o.customerPhone # "" THEN {"WhatsApp"} ELSE {})
    \cup (IF o.sendEmail /\ o.customerEmail # "" THEN {"Email"} ELSE {})

\* C23: sendInvoiceNotifications never throws; when it has returned, every
\* attempted channel and no other has a result of its own, totalSent +
\* totalFailed is the number of attempted channels, and channels lists
\* exactly the channels whose result reports success, each once.
C23_DispatchReportsEachChannel ==
    /\ dispatch.pc # "threw"
    /\ dispatch.pc = "returned"
         => LET res == dispatch.results
                result == [ch \in {"WhatsApp", "Email"} |->
                             IF ch = "Email" THEN res.email ELSE res.whatsApp]
                attempted == Attempted(dispatch.options)
                succeeded == {ch \in attempted : result[ch][1].success}
            IN /\ \A ch \in {"WhatsApp", "Email"} :
                     Len(result[ch]) = (IF ch \in attempted THEN 1 ELSE 0)
               /\ res.summary.totalSent + res.summary.totalFailed
                     = Cardinality(attempted)
               /\ res.summary.totalSent = Cardinality(succeeded)
               /\ {res.summary.channels[k] : k \in 1..Len(res.summary.channels)}
                     = succeeded
               /\ Len(res.summary.channels) = Cardinality(succeeded)

\* both channels were attempted, WhatsApp is disabled and the mail transport
\* rejected the message: two separate failures are returned
C23_Witness ==
    /\ dispatch.pc = "returned"
    /\ Attempted(dispatch.options) = {"WhatsApp", "Email"}
    /\ dispatch.results.email = <<SendInvoicePDF(dispatch.options.customerEmail,
                                                 "sendMail rejected")>>
    /\ dispatch.results.whatsApp # <<>>
    /\ dispatch.results.summary.totalFailed = 2

\* C24: a Sale recordSale commits has a non-empty items sequence with one
\* SaleItem per request line in request order, each with a quantity in
\* [1, 1000], the sellPrice of the inventory item as unitPrice, whatever
\* price the request line carries, and totalPrice = unitPrice * quantity.
C24_SaleItemsFromInventory ==
    [][\A r \in Reqs :
         (~Persisted(r) /\ Len(sales') = Len(sales) + 1
          /\ sales'[Len(sales')]._id = SaleId(r))
         => LET lines == call[r].items
                items == sales'[Len(sales')].items
            IN /\ Len(items) >= 1
               /\ Len(items) = Len(lines)
               /\ \A k \in 1..Len(items) :
                     /\ items[k].itemId = lines[k].itemId
                     /\ items[k].quantity = lines[k].quantity
                     /\ items[k].quantity \in 1..1000
                     /\ items[k].unitPrice = Catalog[lines[k].itemId].sellPrice
                     /\ items[k].totalPrice = items[k].unitPrice * items[k].quantity]_vars

\* a sale of "A" is committed at the inventory price for a request line that
\* carried a unit price of its own
C24_Witness ==
    \E r \in Reqs :
        /\ call[r].pc = "populate"
        /\ Persisted(r)
        /\ call[r].items[1].unitPrice = <<1>>
        /\ sales[Len(sales)].items[1].unitPrice = Catalog["A"].sellPrice
        /\ sales[Len(sales)].items[1].totalPrice = Catalog["A"].sellPrice

\* the phase a position of recordSale belongs to, in the order validation
\* and store resolution, stock validation and pricing, customer resolution,
\* invoice numbering, persist and commit, notification
Phase(pc) ==
    CASE pc = "idle" -> 1
      [] pc = "findItems" -> 2
      [] pc = "findCustomer" -> 3
      [] pc = "genInvoice" -> 4
      [] pc \in {"save", "bulkWrite", "commit"} -> 5
      [] pc \in {"populate", "notify", "audit"} -> 6
      [] OTHER -> 7

\* the request lines do not all name an inventory item with enough stock
ItemDefect(items) ==
    \/ FoundCount(items) # Len(items)
    \/ \E k \in 1..Len(items) : items[k].itemId \notin Items
    \/ ShortLines(items) # {}

\* C25: recordSale only moves forward through its phases; a request that
\* breaks an input rule is refused with ValidationError whatever else is
\* wrong with it, StoreRequired is reported only for a valid body, an item
\* or stock defect is reported whatever the customerId, the customer is
\* looked up only after the stock check passed, and an invoice number is
\* generated only in the numbering phase, never for a request refused by the
\* stock or customer checks.
C25_PhaseOrder ==
    /\ [][\A r \in Reqs :
            LET c == call[r]
                d == call'[r]
            IN /\ d.pc # c.pc => Phase(d.pc) >= Phase(c.pc)
               /\ (c.pc = "idle" /\ d.pc # "idle")
                    => /\ ViolatesValidation(d.items, d.opts)
                            => d.error = "ValidationError"
                       /\ d.error = "StoreRequired"
                            => ~ViolatesValidation(d.items, d.opts)
                       /\ d.error \in {None, "ValidationError", "StoreRequired"}
               /\ (c.pc = "findItems" /\ d.pc # "findItems")
                    => /\ ItemDefect(c.items)
                            => d.error \in {"ItemNotFound", "InsufficientStock"}
                       /\ ~ItemDefect(c.items) => d.pc = "findCustomer"
               /\ (d.error # c.error /\ d.error \in {"ItemNotFound", "InsufficientStock"})
                    => c.pc = "findItems"
               /\ (d.error # c.error /\ d.error = "CustomerNotFound")
                    => c.pc = "findCustomer"
               /\ (d.invoiceNumber # c.invoiceNumber /\ d.invoiceNumber # NoInvoice)
                    => c.pc = "genInvoice"]_vars
    /\ [](\A r \in Reqs :
            call[r].error \in {"ValidationError", "StoreRequired", "ItemNotFound",
                               "InsufficientStock", "CustomerNotFound"}
            => call[r].invoiceNumber = NoInvoice /\ ~Persisted(r))

\* a request with a quantity of 0 for an unknown item, an unknown customer
\* and no store to resolve was refused for its input
C25_Witness ==
    \E r \in Reqs :
        /\ call[r].pc = "done"
        /\ call[r].error = "ValidationError"
        /\ call[r].items = <<[itemId |-> "X", quantity |-> 0, unitPrice |-> <<>>]>>
        /\ call[r].opts.customerId = "c404"
        /\ ResolveStore(call[r].opts.storeId, call[r].opts.userStoreId,
                        call[r].opts.role, call[r].opts.availableStore) = None
        /\ call[r].invoiceNumber = NoInvoice

\* C26: among the invoice numbers of a year in the collection, the one
\* generateInvoiceNumber selects, first in descending string order, carries
\* the greatest numeric suffix.
C26_StringOrderIsNumericOrder ==
    \A y \in Years :
        SuffixesOf("INV", y) # {}
        => ParseInt(LastSuffix("INV", y)) = HighestSequence(y)

\* sequence n of year y belongs to a Sale of the collection
SequenceIssued(y, n) ==
    \/ y = BaseYear /\ n \in 1..issuedBefore
    \/ \E k \in 1..Len(sales) :
          /\ sales[k].invoiceNumber.year = y
          /\ ParseInt(sales[k].invoiceNumber.suffix) = n

\* C27: with recordSale as the only writer, the numeric invoice suffixes of
\* the Sales of a year are 1..N without a gap: every suffix is at least 1
\* and every suffix above 1 has its predecessor in the collection.
C27_NoGaps ==
    \A k \in 1..Len(sales) :
        LET n == ParseInt(sales[k].invoiceNumber.suffix)
        IN /\ n >= 1
           /\ n > 1 => SequenceIssued(sales[k].invoiceNumber.year, n - 1)

\* next to the numbers issued before, one request committed the next number
\* and the request that raced with it failed on the same number
C27_Witness ==
    /\ issuedBefore > 0
    /\ Len(sales) = 1
    /\ ParseInt(sales[1].invoiceNumber.suffix) = issuedBefore + 1
    /\ \E r \in Reqs : call[r].pc = "done" /\ call[r].error = "InvoiceConflict"

\* C28: a recordSale invocation never sends more than one response, and has
\* sent exactly one when it ends.
C28_ExactlyOneResponse ==
    \A r \in Reqs :
        /\ Len(call[r].responses) <= 1
        /\ call[r].pc = "done" => Len(call[r].responses) = 1

\* C29: the session recordSale starts is ended once, after its transaction
\* was committed or aborted, and abortTransaction is only ever invoked on a
\* transaction that is still active.
C29_SessionLifecycle ==
    /\ [](\A r \in Reqs :
            /\ call[r].abortedOn \subseteq {"active"}
            /\ call[r].session = "ended" => call[r].txn \in {"committed", "aborted"}
            /\ (call[r].pc = "done" /\ call[r].txn # "none")
                 => call[r].session = "ended")
    /\ [][\A r \in Reqs :
            call'[r].session # call[r].session
            => \/ call[r].session = "none" /\ call'[r].session = "open"
               \/ call[r].session = "open" /\ call'[r].session = "ended"]_vars

\* the units a completed adjustment of item i added and took away
Added(i) ==
    IF adjust.id = i /\ adjust.status = 200 /\ adjust.operation = "add"
    THEN adjust.quantity ELSE 0
Subtracted(i) ==
    IF adjust.id = i /\ adjust.status = 200 /\ adjust.operation = "subtract"
    THEN adjust.quantity ELSE 0

\* C30: stockQty is never negative, and once a stock adjustment by add or
\* subtract and a recordSale invocation have both completed, each item's
\* stockQty is its initial stock plus the units added, minus the units
\* subtracted, minus the quantity sold.
C30_AdjustmentAndSaleBothCount ==
    /\ \A i \in Items : stock[i] >= 0
    /\ (/\ adjust.pc = "done"
        /\ adjust.operation \in {"add", "subtract"}
        /\ \A r \in Reqs : call[r].pc \in {"idle", "done"})
       => \A i \in Items :
             stock[i] = InitStock[i] + Added(i) - Subtracted(i) - SoldQty(sales, i)

====
